---- MODULE Spec2Model ----
(***************************************************************************)
(* Polyomino enumeration and canonicalization (SebastianGoeb/polycubes).   *)
(*                                                                         *)
(* A point is a pair <<x, y>>.  A packed row (a u64) is the set of its set *)
(* bit positions, a subset of 0..WIDTH-1; a grid (Vec<u64>) is a sequence  *)
(* of rows.  Rows are compared as the unsigned integers they encode.       *)
(* A point list (Vec) is a sequence, so the order of the input is part of  *)
(* the state.                                                              *)
(***************************************************************************)
EXTENDS Integers, Sequences, FiniteSets

VARIABLES
    overflow_checks,  \* build profile: TRUE = overflow checks on (debug), FALSE = off (release)
    max_n,            \* cli.max_n
    n,                \* loop variable of generate_polys
    known_polys,      \* HashMap<usize, Vec<BinShape>>
    new_polys,        \* generate_polys_of_size: new_polys
    prev_idx,         \* generate_polys_of_size: position in prev_polys
    possible_points,  \* generate_polys_of_size: candidates of the current prev_poly not tried yet
    tried,            \* generate_polys_of_size: tried
    pc,               \* position of the driver
    points_a,         \* first point list handed to the constructors
    points_b,         \* second point list handed to the constructors
    rel,              \* how points_b was obtained from points_a
    shape_a,          \* the shapes constructed from points_a
    shape_b,          \* the shapes constructed from points_b
    shard,            \* parallel expansion: the worker each shape of the previous generation goes to
    local,            \* parallel expansion: every worker's private result
    totals            \* parallel expansion: the counters summed by the last merge

vars == <<overflow_checks, max_n, n, known_polys, new_polys, prev_idx,
          possible_points, tried, pc, points_a, points_b, rel, shape_a, shape_b,
          shard, local, totals>>

driver_vars == <<max_n, n, known_polys, new_polys, prev_idx, possible_points, tried, pc>>
canon_vars == <<points_a, points_b, rel, shape_a, shape_b>>
par_vars == <<shard, local, totals>>

----------------------------------------------------------------------------
(* Bounds of the model *)

\* largest max_n the driver is run with
MaxN == 4
\* longest point list handed to the constructors
MaxPts == 4
\* input points of the constructors lie in 0..CoordMax x 0..1
CoordMax == 2
\* translations move by -MaxShift, 0 or MaxShift in each axis
MaxShift == 3

\* number of bits of a packed row (u64)
WIDTH == 64

----------------------------------------------------------------------------
(* Integer and sequence helpers *)

Min2(a, b) == IF a <= b THEN a ELSE b
Max2(a, b) == IF a >= b THEN a ELSE b
Abs(a) == IF a < 0 THEN -a ELSE a

SetMin(S) == CHOOSE x \in S : \A y \in S : x <= y
SetMax(S) == CHOOSE x \in S : \A y \in S : x >= y

Range(s) == {s[i] : i \in 1..Len(s)}

Xs(points) == {points[i][1] : i \in 1..Len(points)}
Ys(points) == {points[i][2] : i \in 1..Len(points)}

----------------------------------------------------------------------------
(* u64 rows and Vec<u64> grids *)

\* u64 comparison: the highest bit in which the rows differ decides
RowLess(a, b) ==
    /\ a # b
    /\ SetMax((a \ b) \cup (b \ a)) \in b

\* Ord for Vec<u64>: lexicographic, a proper prefix is smaller
GridLess(g, h) ==
    LET m == Min2(Len(g), Len(h))
        diff == {i \in 1..m : g[i] # h[i]}
    IN  IF diff = {} THEN Len(g) < Len(h)
        ELSE RowLess(g[SetMin(diff)], h[SetMin(diff)])

\* the packing with the shift left out: grid[row] |= 0x1 for every cell
PackRowsNoShift(cells, rows) ==
    LET idx == 1..Len(cells)
    IN  [ok |-> \A i \in idx : cells[i][1] \in 0..(rows - 1),
         grid |-> [r \in 1..rows |-> {0 : i \in {j \in idx : cells[j][1] = r - 1}}]]

\* grid[row] |= 0x1 << col for every cell <<row, col>> of cells, on vec![0; rows].
\* An index outside the vector panics.  A shift amount outside 0..WIDTH-1 panics
\* when overflow checks are on and is taken modulo WIDTH otherwise.
PackRows(cells, rows) ==
    LET idx == 1..Len(cells)
    IN  [ok |-> /\ \A i \in idx : cells[i][1] \in 0..(rows - 1)
                /\ overflow_checks => \A i \in idx : cells[i][2] \in 0..(WIDTH - 1),
         grid |-> [r \in 1..rows |->
                     {cells[i][2] % WIDTH : i \in {j \in idx : cells[j][1] = r - 1}}]]

----------------------------------------------------------------------------
(* rotation.rs *)

\* row-major 2x2 matrices <<m11, m12, m21, m22>>
ROTATIONS ==
    << <<1, 0, 0, 1>>,      \* 0 deg ccw
       <<0, -1, 1, 0>>,     \* 90 deg ccw
       <<-1, 0, 0, -1>>,    \* 180 deg ccw
       <<0, 1, -1, 0>> >>   \* 270 deg ccw

ROTATIONS8 ==
    << <<1, 0, 0, 1>>,      \* 0 deg ccw
       <<0, -1, 1, 0>>,     \* 90 deg ccw
       <<-1, 0, 0, -1>>,    \* 180 deg ccw
       <<0, 1, -1, 0>> >>   \* 270 deg ccw

\* rotation * p
RotMul(rotation, p) ==
    <<rotation[1] * p[1] + rotation[2] * p[2],
      rotation[3] * p[1] + rotation[4] * p[2]>>

VAdd(p, q) == <<p[1] + q[1], p[2] + q[2]>>
VSub(p, q) == <<p[1] - q[1], p[2] - q[2]>>

----------------------------------------------------------------------------
(* bounding_box_two_points.rs *)

\* BBFrom with the minimum corner taken to be the origin
BBFromOrigin(points) ==
    [p0 |-> <<0, 0>>,
     p1 |-> <<SetMax(Xs(points)), SetMax(Ys(points))>>]

BBFrom(points) ==
    [p0 |-> <<SetMin(Xs(points)), SetMin(Ys(points))>>,
     p1 |-> <<SetMax(Xs(points)), SetMax(Ys(points))>>]

BBMin(bb) == <<Min2(bb.p0[1], bb.p1[1]), Min2(bb.p0[2], bb.p1[2])>>
BBMax(bb) == <<Max2(bb.p0[1], bb.p1[1]), Max2(bb.p0[2], bb.p1[2])>>
BBMul(rotation, bb) == [p0 |-> RotMul(rotation, bb.p0), p1 |-> RotMul(rotation, bb.p1)]
BBSub(bb, v) == [p0 |-> VSub(bb.p0, v), p1 |-> VSub(bb.p1, v)]

----------------------------------------------------------------------------
(* shape_with_grid.rs *)

\* the candidate (bounds, grid) of one rotation; ok = FALSE when packing panics
rotate_shape(points, bounds, rotation) ==
    LET bounds_rotated == BBMul(rotation, bounds)
        bounds_rotated_min == BBMin(bounds_rotated)
        bounds_rotated_normalized == BBSub(bounds_rotated, bounds_rotated_min)
        bounds_rotated_normalized_max == BBMax(bounds_rotated_normalized)
        \* p = rotation * p - bounds_rotated_min; the row is p.y, the bit is p.x
        cells == [i \in 1..Len(points) |->
                    LET p == VSub(RotMul(rotation, points[i]), bounds_rotated_min)
                    IN  <<p[2], p[1]>>]
        packed == PackRows(cells, bounds_rotated_normalized_max[2] + 1)
    IN  [ok |-> packed.ok, bounds |-> bounds_rotated_normalized, grid |-> packed.grid]

\* the loop of ShapeWithGrid::new over the rotations k..Len(ROTATIONS):
\* a candidate replaces best only when its grid is strictly smaller
RECURSIVE SWGBest(_, _, _, _)
SWGBest(points, bounds, k, best) ==
    IF k > Len(ROTATIONS) THEN best
    ELSE LET candidate == rotate_shape(points, bounds, ROTATIONS[k])
         IN  IF GridLess(candidate.grid, best.grid)
             THEN SWGBest(points, bounds, k + 1, candidate)
             ELSE SWGBest(points, bounds, k + 1, best)

\* ShapeWithGrid::new without the loop: the grid of the first rotation is kept
ShapeWithGridNewFirstRotation(points) ==
    LET first == rotate_shape(points, BBFrom(points), ROTATIONS[1])
    IN  IF first.ok
        THEN [ok |-> TRUE, points |-> points, grid_bounds |-> first.bounds, grid |-> first.grid]
        ELSE [ok |-> FALSE, points |-> <<>>, grid_bounds |-> [p0 |-> <<0, 0>>, p1 |-> <<0, 0>>],
              grid |-> <<>>]

\* ShapeWithGrid::new; a panic in any rotate_shape call aborts the construction
ShapeWithGridNew(points) ==
    LET bounds == BBFrom(points)
        first == rotate_shape(points, bounds, ROTATIONS[1])
        best == SWGBest(points, bounds, 2, first)
        ok == \A k \in 1..Len(ROTATIONS) : rotate_shape(points, bounds, ROTATIONS[k]).ok
    IN  IF ok
        THEN [ok |-> TRUE, points |-> points, grid_bounds |-> best.bounds, grid |-> best.grid]
        ELSE [ok |-> FALSE, points |-> <<>>, grid_bounds |-> [p0 |-> <<0, 0>>, p1 |-> <<0, 0>>],
              grid |-> <<>>]

\* equality as #[derive(PartialEq)] would give it: every field compared
ShapeWithGridEqDerived(a, b) == a = b

\* impl PartialEq for ShapeWithGrid
ShapeWithGridEq(a, b) == a.grid = b.grid

\* impl Hash for ShapeWithGrid: what is written to the hasher (length prefix, then the rows)
ShapeWithGridHash(a) == [len |-> Len(a.grid), words |-> a.grid]

----------------------------------------------------------------------------
(* shape_minimal.rs *)

\* points.sort_by(|a, b| a.x.cmp(&b.x).then(a.y.cmp(&b.y)))
PointLess(p, q) == p[1] < q[1] \/ (p[1] = q[1] /\ p[2] < q[2])

SortPoints(points) ==
    LET idx == 1..Len(points)
        rank(i) == 1 + Cardinality({j \in idx : \/ PointLess(points[j], points[i])
                                                \/ (points[j] = points[i] /\ j < i)})
    IN  [k \in idx |-> points[CHOOSE i \in idx : rank(i) = k]]

\* the closure of canonical_rotation: (grid, rotation, realign_offset) of one rotation
MinimalCandidate(points, minp, maxp, rotation) ==
    LET bounds == VSub(maxp, minp)
        rotated_bounds == RotMul(rotation, bounds)
        realign_offset == <<-Min2(rotated_bounds[1], 0), -Min2(rotated_bounds[2], 0)>>
        realigned_bounds == <<Abs(rotated_bounds[1]), Abs(rotated_bounds[2])>>
        cells == [i \in 1..Len(points) |->
                    LET point_rotated == VAdd(RotMul(rotation, VSub(points[i], minp)),
                                              realign_offset)
                    IN  <<point_rotated[2], point_rotated[1]>>]
        packed == PackRows(cells, realigned_bounds[2] + 1)
    IN  [ok |-> packed.ok, grid |-> packed.grid, rotation |-> rotation,
         realign_offset |-> realign_offset]

\* min_by(|a, b| a.0.cmp(&b.0)) over the candidates k..Len(ROTATIONS8):
\* of several equal minima the first is kept
RECURSIVE MinimalBest(_, _, _, _, _)
MinimalBest(points, minp, maxp, k, best) ==
    IF k > Len(ROTATIONS8) THEN best
    ELSE LET candidate == MinimalCandidate(points, minp, maxp, ROTATIONS8[k])
         IN  IF GridLess(candidate.grid, best.grid)
             THEN MinimalBest(points, minp, maxp, k + 1, candidate)
             ELSE MinimalBest(points, minp, maxp, k + 1, best)

canonical_rotation(points, minp, maxp) ==
    LET best == MinimalBest(points, minp, maxp, 2,
                            MinimalCandidate(points, minp, maxp, ROTATIONS8[1]))
    IN  [ok |-> \A k \in 1..Len(ROTATIONS8) :
                    MinimalCandidate(points, minp, maxp, ROTATIONS8[k]).ok,
         rotation |-> best.rotation,
         realign_offset |-> best.realign_offset,
         grid |-> best.grid]

\* ShapeMinimal::new
ShapeMinimalNew(points) ==
    LET minp == <<SetMin(Xs(points)), SetMin(Ys(points))>>
        maxp == <<SetMax(Xs(points)), SetMax(Ys(points))>>
        cr == canonical_rotation(points, minp, maxp)
        moved == [i \in 1..Len(points) |->
                    VAdd(RotMul(cr.rotation, VSub(points[i], minp)), cr.realign_offset)]
    IN  IF cr.ok THEN [ok |-> TRUE, points |-> SortPoints(moved)]
        ELSE [ok |-> FALSE, points |-> <<>>]

\* #[derive(PartialEq, Eq)] on ShapeMinimal
ShapeMinimalEq(a, b) == a.points = b.points

\* impl Hash for ShapeMinimal: what is written to the hasher
ShapeMinimalHash(a) == [len |-> Len(a.points), words |-> a.points]

----------------------------------------------------------------------------
(* poly.rs: BinShape *)

\* impl Vec2 for (i32, i32)
rotate90(p) == <<-p[2], p[1]>>
rotate180(p) == <<-p[1], -p[2]>>
rotate270(p) == <<p[2], -p[1]>>
translate(p, t) == <<p[1] + t[1], p[2] + t[2]>>

\* the four grids of BinShape::canonical, in the order [grid_0, grid_90, grid_180, grid_270];
\* the row is p.0, the bit is p.1
BinGrids(points) ==
    LET idx == 1..Len(points)
        min_0 == SetMin(Xs(points))
        max_0 == SetMax(Xs(points))
        min_1 == SetMin(Ys(points))
        max_1 == SetMax(Ys(points))
        dim_0 == max_0 - min_0 + 1
        dim_1 == max_1 - min_1 + 1
        g0 == PackRows([i \in idx |-> translate(points[i], <<-min_0, -min_1>>)], dim_0)
        g90 == PackRows([i \in idx |-> translate(rotate90(points[i]), <<max_1, -min_0>>)], dim_1)
        g180 == PackRows([i \in idx |-> translate(rotate180(points[i]), <<max_0, max_1>>)], dim_0)
        g270 == PackRows([i \in idx |-> translate(rotate270(points[i]), <<-min_1, max_0>>)], dim_1)
    IN  << [ok |-> g0.ok, grid |-> g0.grid, dimensions |-> <<dim_0, dim_1>>],
           [ok |-> g90.ok, grid |-> g90.grid, dimensions |-> <<dim_1, dim_0>>],
           [ok |-> g180.ok, grid |-> g180.grid, dimensions |-> <<dim_0, dim_1>>],
           [ok |-> g270.ok, grid |-> g270.grid, dimensions |-> <<dim_1, dim_0>> ] >>

\* max_by(|(_, a), (_, b)| a.cmp(&b)) over the grids k..Len(grids), best the index kept
\* so far: of several equal maxima the last is kept
RECURSIVE BinBestIdx(_, _, _)
BinBestIdx(grids, k, best) ==
    IF k > Len(grids) THEN best
    ELSE IF GridLess(grids[k].grid, grids[best].grid)
         THEN BinBestIdx(grids, k + 1, best)
         ELSE BinBestIdx(grids, k + 1, k)

\* BinShape::canonical with grid_0 always kept
BinShapeCanonicalNoRotation(points) ==
    LET grids == BinGrids(points)
    IN  IF \A k \in 1..Len(grids) : grids[k].ok
        THEN [ok |-> TRUE, points |-> points, grid |-> grids[1].grid,
              dimensions |-> grids[1].dimensions]
        ELSE [ok |-> FALSE, points |-> <<>>, grid |-> <<>>, dimensions |-> <<0, 0>>]

\* BinShape::canonical
BinShapeCanonical(points) ==
    LET grids == BinGrids(points)
        idx == BinBestIdx(grids, 2, 1)
    IN  IF \A k \in 1..Len(grids) : grids[k].ok
        THEN [ok |-> TRUE, points |-> points, grid |-> grids[idx].grid,
              dimensions |-> grids[idx].dimensions]
        ELSE [ok |-> FALSE, points |-> <<>>, grid |-> <<>>, dimensions |-> <<0, 0>>]

\* equality of BinShape on the raw point lists
BinShapeEqByPoints(a, b) == a.points = b.points

\* impl PartialEq for BinShape
BinShapeEq(a, b) == a.grid = b.grid


----------------------------------------------------------------------------
(* poly.rs: generate_polys and generate_polys_of_size *)

MOVES == << <<0, 1>>, <<0, -1>>, <<1, 0>>, <<-1, 0>> >>

\* .unique(): the first occurrence of every element, in order
RECURSIVE Unique(_)
Unique(s) ==
    IF s = <<>> THEN <<>>
    ELSE LET front == Unique(SubSeq(s, 1, Len(s) - 1))
             last == s[Len(s)]
         IN  IF last \in Range(front) THEN front ELSE Append(front, last)

\* possible_points without the filter on the points of prev_poly
PossiblePointsUnfiltered(prev_poly) ==
    LET pts == prev_poly.points
        moved == [k \in 1..(Len(pts) * Len(MOVES)) |->
                    LET p == pts[((k - 1) \div Len(MOVES)) + 1]
                        m == MOVES[((k - 1) % Len(MOVES)) + 1]
                    IN  <<p[1] + m[1], p[2] + m[2]>>]
    IN  Unique(moved)

\* possible_points of one prev_poly: every point moved by every move, in order,
\* without repetitions and without the points of prev_poly
PossiblePoints(prev_poly) ==
    LET pts == prev_poly.points
        moved == [k \in 1..(Len(pts) * Len(MOVES)) |->
                    LET p == pts[((k - 1) \div Len(MOVES)) + 1]
                        m == MOVES[((k - 1) % Len(MOVES)) + 1]
                    IN  <<p[1] + m[1], p[2] + m[2]>>]
        IsFree(p) == p \notin Range(pts)
    IN  SelectSeq(Unique(moved), IsFree)

\* contains that compares the dimensions only
ContainsByDimensions(polys, poly) ==
    \E i \in 1..Len(polys) : polys[i].dimensions = poly.dimensions

\* new_polys.contains(&new_poly)
Contains(polys, poly) == \E i \in 1..Len(polys) : BinShapeEq(polys[i], poly)

\* the push without the contains check
PushAlways(polys, poly) == Append(polys, poly)

\* if new_polys.contains(&new_poly) { continue; } new_polys.push(new_poly)
PushIfNew(polys, poly) == IF Contains(polys, poly) THEN polys ELSE Append(polys, poly)

\* generate_polys_of_size(1, ..) and known_polys.entry(1).or_insert(polys)
GenerateSeed ==
    /\ pc = "loop"
    /\ n <= max_n
    /\ n = 1
    /\ LET seed == BinShapeCanonical(<< <<0, 0>> >>)
       IN  IF seed.ok
           THEN /\ known_polys' = IF n \in DOMAIN known_polys THEN known_polys
                                  ELSE Append(known_polys, <<seed>>)
                /\ n' = n + 1
                /\ pc' = "loop"
           ELSE /\ pc' = "panicked"
                /\ UNCHANGED <<known_polys, n>>
    /\ UNCHANGED <<overflow_checks, max_n, new_polys, prev_idx, possible_points, tried>>
    /\ UNCHANGED canon_vars
    /\ UNCHANGED par_vars

\* generate_polys_of_size(n, ..) for n > 1, up to the loop over prev_polys
BeginSize ==
    /\ pc = "loop"
    /\ n <= max_n
    /\ n # 1
    /\ new_polys' = <<>>
    /\ tried' = 0
    /\ prev_idx' = 0
    /\ possible_points' = <<>>
    /\ pc' = "expand"
    /\ UNCHANGED <<overflow_checks, max_n, n, known_polys>>
    /\ UNCHANGED canon_vars
    /\ UNCHANGED par_vars

\* the next prev_poly of the outer loop: its possible_points, counted in tried
NextPrevPoly ==
    /\ pc = "expand"
    /\ possible_points = <<>>
    /\ prev_idx < Len(known_polys[n - 1])
    /\ prev_idx' = prev_idx + 1
    /\ possible_points' = PossiblePoints(known_polys[n - 1][prev_idx + 1])
    /\ tried' = tried + Len(possible_points')
    /\ UNCHANGED <<overflow_checks, max_n, n, known_polys, new_polys, pc>>
    /\ UNCHANGED canon_vars
    /\ UNCHANGED par_vars

\* one iteration of the inner loop: canonicalize prev_poly plus new_point, push it if new
TryPoint ==
    /\ pc = "expand"
    /\ possible_points # <<>>
    /\ LET prev_poly == known_polys[n - 1][prev_idx]
           new_point == Head(possible_points)
           new_points == Append(prev_poly.points, new_point)
           new_poly == BinShapeCanonical(new_points)
       IN  IF new_poly.ok
           THEN /\ new_polys' = PushIfNew(new_polys, new_poly)
                /\ possible_points' = Tail(possible_points)
                /\ pc' = "expand"
           ELSE /\ pc' = "panicked"
                /\ UNCHANGED <<new_polys, possible_points>>
    /\ UNCHANGED <<overflow_checks, max_n, n, known_polys, prev_idx, tried>>
    /\ UNCHANGED canon_vars
    /\ UNCHANGED par_vars

\* generate_polys_of_size returns new_polys; known_polys.entry(n).or_insert(polys)
FinishSize ==
    /\ pc = "expand"
    /\ possible_points = <<>>
    /\ prev_idx = Len(known_polys[n - 1])
    /\ known_polys' = IF n \in DOMAIN known_polys THEN known_polys
                      ELSE Append(known_polys, new_polys)
    /\ n' = n + 1
    /\ pc' = "loop"
    /\ UNCHANGED <<overflow_checks, max_n, new_polys, prev_idx, possible_points, tried>>
    /\ UNCHANGED canon_vars
    /\ UNCHANGED par_vars

\* the loop 1..=max_n is over: generate_polys returns
Finish ==
    /\ pc = "loop"
    /\ n > max_n
    /\ pc' = "done"
    /\ UNCHANGED <<overflow_checks, max_n, n, known_polys, new_polys, prev_idx,
                   possible_points, tried>>
    /\ UNCHANGED canon_vars
    /\ UNCHANGED par_vars

\* no parallel expansion under way
ParIdle ==
    /\ shard = <<>>
    /\ local = <<>>
    /\ totals = [moves |-> 0, canon |-> 0, found |-> 0]

\* the three constructors of the repository applied to one point list
Construct(points) ==
    [swg |-> ShapeWithGridNew(points),
     min |-> ShapeMinimalNew(points),
     bin |-> BinShapeCanonical(points)]

\* nothing constructed yet
NoShapes ==
    [swg |-> [ok |-> FALSE, points |-> <<>>,
              grid_bounds |-> [p0 |-> <<0, 0>>, p1 |-> <<0, 0>>], grid |-> <<>>],
     min |-> [ok |-> FALSE, points |-> <<>>],
     bin |-> [ok |-> FALSE, points |-> <<>>, grid |-> <<>>, dimensions |-> <<0, 0>>]]

CanonIdle ==
    /\ points_a = <<>>
    /\ points_b = <<>>
    /\ rel = "none"
    /\ shape_a = NoShapes
    /\ shape_b = NoShapes

Init ==
    /\ overflow_checks \in BOOLEAN
    /\ max_n \in 0..MaxN
    /\ n = 1
    /\ known_polys = <<>>
    /\ new_polys = <<>>
    /\ prev_idx = 0
    /\ possible_points = <<>>
    /\ tried = 0
    /\ pc = "loop"
    /\ CanonIdle
    /\ ParIdle

Next ==
    \/ GenerateSeed
    \/ BeginSize
    \/ NextPrevPoly
    \/ TryPoint
    \/ FinishSize
    \/ Finish

Spec == Init /\ [][Next]_vars

----------------------------------------------------------------------------
(* The constructors as pure functions: a point list is drawn, then a second *)
(* list is derived from it and both are constructed.                        *)

DriverIdle ==
    /\ max_n = 0
    /\ n = 1
    /\ known_polys = <<>>
    /\ new_polys = <<>>
    /\ prev_idx = 0
    /\ possible_points = <<>>
    /\ tried = 0
    /\ pc = "idle"

\* the points of S as a list, in the order of PointLess
ListOf(S) ==
    [k \in 1..Cardinality(S) |->
        CHOOSE p \in S : Cardinality({q \in S : PointLess(q, p)}) = k - 1]

InputBox == (0..CoordMax) \X (0..1)

InputLists == {ListOf(S) : S \in {T \in SUBSET InputBox : Cardinality(T) \in 1..MaxPts}}

Shifts == {-MaxShift, 0, MaxShift} \X {-MaxShift, 0, MaxShift}

\* the lists with the elements of s in any order
Orderings(s) ==
    {[i \in 1..Len(s) |-> s[f[i]]] :
        f \in {g \in [1..Len(s) -> 1..Len(s)] : \A i, j \in 1..Len(s) : g[i] = g[j] => i = j}}

\* points rotated about the origin by k quarter turns
RECURSIVE TurnPoint(_, _)
TurnPoint(p, k) == IF k = 0 THEN p ELSE TurnPoint(<<-p[2], p[1]>>, k - 1)

Constructed(b, how) ==
    /\ points_b' = b
    /\ rel' = how
    /\ shape_a' = Construct(points_a)
    /\ shape_b' = Construct(b)
    /\ UNCHANGED <<overflow_checks, points_a>>
    /\ UNCHANGED driver_vars
    /\ UNCHANGED par_vars

ConstructRotated ==
    /\ rel = "input"
    /\ \E k \in 1..3 :
          Constructed([i \in 1..Len(points_a) |-> TurnPoint(points_a[i], k)], "rotated")

ConstructTranslated ==
    /\ rel = "input"
    /\ \E t \in Shifts \ {<<0, 0>>} :
          Constructed([i \in 1..Len(points_a) |-> VAdd(points_a[i], t)], "translated")

ConstructReordered ==
    /\ rel = "input"
    /\ \E b \in Orderings(points_a) \ {points_a} : Constructed(b, "reordered")

\* another list: one point of points_a moved to a free cell of the box
ConstructOther ==
    /\ rel = "input"
    /\ \E i \in 1..Len(points_a) : \E c \in InputBox \ Range(points_a) :
          Constructed([points_a EXCEPT ![i] = c], "other")

InitCanon ==
    /\ overflow_checks \in BOOLEAN
    /\ DriverIdle
    /\ points_a \in InputLists
    /\ points_b = <<>>
    /\ rel = "input"
    /\ shape_a = NoShapes
    /\ shape_b = NoShapes
    /\ ParIdle

NextCanon ==
    \/ ConstructRotated
    \/ ConstructTranslated
    \/ ConstructReordered
    \/ ConstructOther

SpecCanon == InitCanon /\ [][NextCanon]_vars


----------------------------------------------------------------------------
(* The constructors on point sets wider than a packed row *)

\* longest point list of the wide inputs
MaxWidePts == 2

WideBox == {0, WIDTH - 1, WIDTH, 2 * WIDTH} \X (0..1)

WideLists == {ListOf(S) : S \in {T \in SUBSET WideBox : Cardinality(T) \in 1..MaxWidePts}}

ConstructWide ==
    /\ rel = "input"
    /\ \E b \in WideLists : Constructed(b, "wide")

InitCap ==
    /\ overflow_checks \in BOOLEAN
    /\ DriverIdle
    /\ points_a \in WideLists
    /\ points_b = <<>>
    /\ rel = "input"
    /\ shape_a = NoShapes
    /\ shape_b = NoShapes
    /\ ParIdle

NextCap == ConstructWide

SpecCap == InitCap /\ [][NextCap]_vars

----------------------------------------------------------------------------
(* Parallel expansion of a generation (spec.md 4.4 and 5): the previous     *)
(* generation is partitioned over the workers, every worker expands its     *)
(* shard into a private set with private counters, and one merge after the  *)
(* join unions the sets, sums the counters and stores the generation.  The  *)
(* per-shape logic is that of generate_polys_of_size.                       *)

\* number of worker tasks
NumWorkers == 2

\* the inner loop of generate_polys_of_size over the candidates k..Len(cands) of
\* prev_poly, pushing into polys; ok turns FALSE when a canonicalization panics
\* (Len(polys) < 0 never holds: it makes TLC evaluate polys at every step)
RECURSIVE TryPoints(_, _, _, _, _)
TryPoints(ok, polys, prev_poly, cands, k) ==
    IF k > Len(cands) \/ Len(polys) < 0 THEN [ok |-> ok, polys |-> polys]
    ELSE LET new_poly == BinShapeCanonical(Append(prev_poly.points, cands[k]))
         IN  IF new_poly.ok
             THEN TryPoints(ok, PushIfNew(polys, new_poly), prev_poly, cands, k + 1)
             ELSE TryPoints(FALSE, polys, prev_poly, cands, k + 1)

\* a worker's private result before it has run
NoResult == [done |-> FALSE, ok |-> TRUE, polys |-> <<>>, moves |-> 0, canon |-> 0, found |-> 0]

\* one worker over its shard, the shapes k..Len(shapes) still to expand: the private
\* set and the private counters (candidate moves examined, canonicalizations
\* performed, distinct shapes found)
RECURSIVE RunShard(_, _, _)
RunShard(shapes, k, acc) ==
    IF k > Len(shapes) THEN [acc EXCEPT !.done = TRUE]
    ELSE LET prev_poly == shapes[k]
             cands == PossiblePoints(prev_poly)
             grown == TryPoints(acc.ok, acc.polys, prev_poly, cands, 1)
         IN  RunShard(shapes, k + 1,
                      [done |-> FALSE,
                       ok |-> grown.ok,
                       polys |-> grown.polys,
                       moves |-> acc.moves + Len(prev_poly.points) * Len(MOVES),
                       canon |-> acc.canon + Len(cands),
                       found |-> acc.found + (Len(grown.polys) - Len(acc.polys))])

\* the shapes of the previous generation that go to worker w, in order
ShardOf(prev_polys, assignment, w) ==
    LET Mine(i) == assignment[i] = w
        idx == SelectSeq([i \in 1..Len(prev_polys) |-> i], Mine)
    IN  [j \in 1..Len(idx) |-> prev_polys[idx[j]]]

\* the partitions of 1..len into at most NumWorkers shards, as the worker of every
\* index; the workers are alike, so the shards are numbered in order of appearance
Partitions(len) ==
    {f \in [1..len -> 1..NumWorkers] :
        \A i \in 1..len : \A w \in 2..NumWorkers :
            f[i] = w => \E j \in 1..(i - 1) : f[j] = w - 1}

\* the union of the private sets of the workers w..Len(results) into polys
RECURSIVE UnionLocals(_, _, _)
UnionLocals(polys, results, w) ==
    IF w > Len(results) THEN polys
    ELSE LET RECURSIVE Into(_, _)
             Into(acc, k) ==
                 IF k > Len(results[w].polys) THEN acc
                 ELSE Into(PushIfNew(acc, results[w].polys[k]), k + 1)
         IN  UnionLocals(Into(polys, 1), results, w + 1)

RECURSIVE SumOver(_, _)
SumOver(counts, w) == IF w > Len(counts) THEN 0 ELSE counts[w] + SumOver(counts, w + 1)

\* the counters of all workers summed
SumCounters(results) ==
    [moves |-> SumOver([w \in 1..Len(results) |-> results[w].moves], 1),
     canon |-> SumOver([w \in 1..Len(results) |-> results[w].canon], 1),
     found |-> SumOver([w \in 1..Len(results) |-> results[w].found], 1)]

\* the generation stored under the key before k
OrInsertBefore(map, k, polys) ==
    IF k - 1 \in DOMAIN map THEN [map EXCEPT ![k - 1] = polys] ELSE Append(map, polys)

\* known_polys.entry(k).or_insert(polys)
OrInsert(map, k, polys) == IF k \in DOMAIN map THEN map ELSE Append(map, polys)

\* the previous generation, &known_polys[&(n - 1)] (a missing key panics), is
\* partitioned over the workers
Fork ==
    /\ pc = "loop"
    /\ n <= max_n
    /\ n # 1
    /\ IF n - 1 \in DOMAIN known_polys
       THEN /\ \E f \in Partitions(Len(known_polys[n - 1])) : shard' = f
            /\ local' = [w \in 1..NumWorkers |-> NoResult]
            /\ pc' = "workers"
       ELSE /\ pc' = "panicked"
            /\ UNCHANGED <<shard, local>>
    /\ UNCHANGED <<overflow_checks, max_n, n, known_polys, new_polys, prev_idx,
                   possible_points, tried, totals>>
    /\ UNCHANGED canon_vars

\* worker w expands its shard; it reads the previous generation and writes local[w] only
WorkerRun(w) ==
    /\ pc = "workers"
    /\ ~local[w].done
    /\ local' = [local EXCEPT
                    ![w] = RunShard(ShardOf(known_polys[n - 1], shard, w), 1, NoResult)]
    /\ UNCHANGED <<overflow_checks, max_n, n, known_polys, new_polys, prev_idx,
                   possible_points, tried, pc, shard, totals>>
    /\ UNCHANGED canon_vars

\* after the join: the union of the private sets, the sum of the counters, the
\* generation stored
Merge ==
    /\ pc = "workers"
    /\ \A w \in 1..NumWorkers : local[w].done
    /\ IF \A w \in 1..NumWorkers : local[w].ok
       THEN /\ known_polys' = OrInsert(known_polys, n, UnionLocals(<<>>, local, 1))
            /\ totals' = SumCounters(local)
            /\ n' = n + 1
            /\ pc' = "loop"
       ELSE /\ pc' = "panicked"
            /\ UNCHANGED <<known_polys, totals, n>>
    /\ UNCHANGED <<overflow_checks, max_n, new_polys, prev_idx, possible_points, tried,
                   shard, local>>
    /\ UNCHANGED canon_vars

NextPar ==
    \/ GenerateSeed
    \/ Fork
    \/ \E w \in 1..NumWorkers : WorkerRun(w)
    \/ Merge
    \/ Finish

SpecPar == Init /\ [][NextPar]_vars

----------------------------------------------------------------------------
(* Reference notions on point sets, independent of the canonical grids *)

PointSet(shape) == Range(shape.points)

Normalize(S) ==
    LET mx == SetMin({p[1] : p \in S})
        my == SetMin({p[2] : p \in S})
    IN  {<<p[1] - mx, p[2] - my>> : p \in S}

Turn(S) == {<<-p[2], p[1]>> : p \in S}
Mirror(S) == {<<-p[1], p[2]>> : p \in S}

\* the translation-normalized images of S under the four rotations
Orbit(S) ==
    {Normalize(S), Normalize(Turn(S)), Normalize(Turn(Turn(S))),
     Normalize(Turn(Turn(Turn(S))))}

Adjacent(p, q) == Abs(p[1] - q[1]) + Abs(p[2] - q[2]) = 1

RECURSIVE Reach(_, _)
Reach(S, R) ==
    LET R2 == R \cup {c \in S : \E d \in R : Adjacent(c, d)}
    IN  IF R2 = R THEN R ELSE Reach(S, R2)

Connected(S) == S # {} /\ Reach(S, {CHOOSE c \in S : TRUE}) = S

\* every translation class of connected k-cell sets has its normalized member here:
\* a connected set of k cells has width + height <= k + 1, so x + y <= k - 1
ConnectedSets(k) ==
    LET cells == {c \in (0..(k - 1)) \X (0..(k - 1)) : c[1] + c[2] <= k - 1}
    IN  {S \in SUBSET cells : Cardinality(S) = k /\ Connected(S)}

GenerationClasses(k) == {Orbit(PointSet(known_polys[k][i])) : i \in 1..Len(known_polys[k])}

----------------------------------------------------------------------------
(* Claims about the driver, checked under Spec *)

\* C1: every stored generation k holds exactly one shape of every class of
\* connected k-cell sets under translation and rotation by 90 degrees, the
\* first generation being the single point at the origin; mirror images that
\* are no rotations of each other are different classes.
C1_OnePerClass ==
    \A k \in 1..Len(known_polys) :
        /\ GenerationClasses(k) = {Orbit(S) : S \in ConnectedSets(k)}
        /\ Cardinality(GenerationClasses(k)) = Len(known_polys[k])
        /\ k = 1 => known_polys[k][1].points = << <<0, 0>> >>

\* C1 witness: the driver finished four generations, and the fourth holds two
\* members that are mirror images of each other
C1_Witness ==
    /\ pc = "done"
    /\ Len(known_polys) >= 4
    /\ \E i, j \in 1..Len(known_polys[4]) :
          /\ i # j
          /\ Orbit(Mirror(PointSet(known_polys[4][i]))) = Orbit(PointSet(known_polys[4][j]))

\* C4: at every point of an expansion step no two members of the output set
\* are rotations or translations of one another; candidates that are
\* rotations of each other leave one member.
C4_NoTwoEquivalent ==
    \A i, j \in 1..Len(new_polys) :
        i # j => Orbit(PointSet(new_polys[i])) # Orbit(PointSet(new_polys[j]))

\* C4 witness: the four candidates grown from the seed, rotations of one
\* another, have all been inserted and the output set has one member
C4_Witness ==
    /\ pc = "expand"
    /\ n = 2
    /\ tried = 4
    /\ prev_idx = 1
    /\ possible_points = <<>>
    /\ Len(new_polys) = 1

HasNeighbour(S, p) == \E q \in S : Adjacent(p, q)

WellFormed(shape, k) ==
    /\ Len(shape.points) = k
    /\ Cardinality(PointSet(shape)) = k
    /\ \A p \in PointSet(shape) : HasNeighbour(PointSet(shape), p)
    /\ Connected(PointSet(shape))

\* C5: every shape of a generation k >= 2, stored or being collected, has k
\* pairwise distinct points, each with an axis neighbour in the shape, and is
\* connected; no candidate cell is a cell of its parent shape.
C5_ExpansionCorrect ==
    /\ \A k \in 2..Len(known_polys) :
          \A i \in 1..Len(known_polys[k]) : WellFormed(known_polys[k][i], k)
    /\ pc = "expand" =>
          /\ \A i \in 1..Len(new_polys) : WellFormed(new_polys[i], n)
          /\ prev_idx >= 1 =>
                \A j \in 1..Len(possible_points) :
                    possible_points[j] \notin PointSet(known_polys[n - 1][prev_idx])

\* C5 witness: a generation of size 4 is stored
C5_Witness == Len(known_polys) >= 4 /\ Len(known_polys[4]) > 0

Domino == {<<0, 0>>, <<1, 0>>}
StraightTromino == {<<0, 0>>, <<1, 0>>, <<2, 0>>}
LTromino == {<<0, 0>>, <<1, 0>>, <<0, 1>>}

\* C6: size 1 has exactly one shape, the point at the origin; size 2 exactly
\* one, the domino; size 3 exactly two, the straight and the L tromino.
C6_SmallCounts ==
    /\ Len(known_polys) >= 1 =>
          /\ Len(known_polys[1]) = 1
          /\ PointSet(known_polys[1][1]) = {<<0, 0>>}
    /\ Len(known_polys) >= 2 =>
          /\ Len(known_polys[2]) = 1
          /\ GenerationClasses(2) = {Orbit(Domino)}
    /\ Len(known_polys) >= 3 =>
          /\ Len(known_polys[3]) = 2
          /\ GenerationClasses(3) = {Orbit(StraightTromino), Orbit(LTromino)}

\* C6 witness: the driver returned with three generations stored
C6_Witness == pc = "done" /\ Len(known_polys) = 3

\* C7 as stated: size 4 has exactly 5 shapes.
C7_FiveOfSizeFour == Len(known_polys) >= 4 => Len(known_polys[4]) = 5

\* C7 amended: size 4 has exactly 7 shapes, the 5 free tetrominoes with the
\* mirror images of the two chiral ones (S/Z and L/J) counted separately.
C7_SevenOfSizeFour ==
    Len(known_polys) >= 4 =>
        /\ Len(known_polys[4]) = 7
        /\ Cardinality({Orbit(S) \cup Orbit(Mirror(S)) :
                            S \in {PointSet(known_polys[4][i]) : i \in 1..7}}) = 5

\* C7 witness: the generation of size 4 has been stored
C7_Witness == Len(known_polys) >= 4 /\ pc = "loop"

\* C10 as stated: a maximum size of zero is rejected; the driver does not
\* return normally.
C10_ZeroRejected == max_n = 0 => pc # "done"


----------------------------------------------------------------------------
(* Claims about the constructors, checked under SpecCanon *)

AllOk(shapes) == shapes.swg.ok /\ shapes.min.ok /\ shapes.bin.ok

\* the same canonical result from both point lists, for each constructor
SameResult(a, b) ==
    /\ a.swg.grid = b.swg.grid
    /\ BBMin(a.swg.grid_bounds) = BBMin(b.swg.grid_bounds)
    /\ BBMax(a.swg.grid_bounds) = BBMax(b.swg.grid_bounds)
    /\ ShapeWithGridEq(a.swg, b.swg)
    /\ a.min.points = b.min.points
    /\ ShapeMinimalEq(a.min, b.min)
    /\ a.bin.grid = b.bin.grid
    /\ a.bin.dimensions = b.bin.dimensions
    /\ BinShapeEq(a.bin, b.bin)

SameHash(a, b) ==
    /\ ShapeWithGridHash(a.swg) = ShapeWithGridHash(b.swg)
    /\ ShapeMinimalHash(a.min) = ShapeMinimalHash(b.min)

\* C2: a point list within the packing capacity and the list rotated about
\* the origin by 90, 180 or 270 degrees construct the same canonical result
\* (same grid, equal shapes), with every constructor.
C2_RotationInvariant ==
    rel = "rotated" => AllOk(shape_a) /\ AllOk(shape_b) /\ SameResult(shape_a, shape_b)

\* C2 witness: a list of at least 4 points was rotated into a different
\* orientation and both were constructed
C2_Witness ==
    /\ rel = "rotated"
    /\ Len(points_a) >= 4
    /\ Normalize(Range(points_a)) # Normalize(Range(points_b))
    /\ shape_b.swg.ok

\* C3: a point list and the list translated by a fixed vector construct the
\* same canonical result (same grid, equal shapes, equal hash), with every
\* constructor.
C3_TranslationInvariant ==
    rel = "translated" =>
        /\ AllOk(shape_a) /\ AllOk(shape_b)
        /\ SameResult(shape_a, shape_b)
        /\ SameHash(shape_a, shape_b)

\* C3 witness: a list of at least 3 points was moved to negative coordinates
\* and both were constructed
C3_Witness ==
    /\ rel = "translated"
    /\ Len(points_a) >= 3
    /\ \E i \in 1..Len(points_b) : points_b[i][1] < 0 /\ points_b[i][2] < 0
    /\ shape_b.min.ok

\* the canonical grid of a point list: the grid canonical_rotation selects
CanonicalGrid(points) ==
    canonical_rotation(points,
                       <<SetMin(Xs(points)), SetMin(Ys(points))>>,
                       <<SetMax(Xs(points)), SetMax(Ys(points))>>).grid

\* C8: two shapes are equal, and hash identically, exactly when their
\* canonical grids are identical; the order of the input points does not
\* affect equality or hash.
C8_IdentityIsGrid ==
    rel \in {"rotated", "translated", "reordered", "other"} =>
        LET same == CanonicalGrid(points_a) = CanonicalGrid(points_b)
        IN  /\ ShapeWithGridEq(shape_a.swg, shape_b.swg) <=> same
            /\ ShapeWithGridHash(shape_a.swg) = ShapeWithGridHash(shape_b.swg) <=> same
            /\ ShapeMinimalEq(shape_a.min, shape_b.min) <=> same
            /\ ShapeMinimalHash(shape_a.min) = ShapeMinimalHash(shape_b.min) <=> same
            /\ BinShapeEq(shape_a.bin, shape_b.bin) <=> same
            /\ rel = "reordered" => same

\* C8 witness: the same points in another order constructed equal shapes,
\* although the stored point lists differ
C8_Witness ==
    /\ rel = "reordered"
    /\ Len(points_a) >= 3
    /\ shape_a.swg.points # shape_b.swg.points
    /\ ShapeWithGridEq(shape_a.swg, shape_b.swg)

----------------------------------------------------------------------------
(* Claim about the packing capacity, checked under SpecCap *)

Extent(S) == SetMax(S) - SetMin(S)

\* some rotation packs a bit at column WIDTH or beyond
OverWide(points) == Extent(Xs(points)) >= WIDTH \/ Extent(Ys(points)) >= WIDTH

\* C9 as stated: constructing a shape from an over-wide point set aborts, so
\* no grid with a wrapped bit is produced and two different over-wide shapes
\* never compare equal.
C9_OverWideAborts ==
    rel = "wide" =>
        /\ OverWide(points_a) =>
              ~shape_a.swg.ok /\ ~shape_a.min.ok /\ ~shape_a.bin.ok
        /\ (/\ OverWide(points_a)
            /\ OverWide(points_b)
            /\ Orbit(Range(points_a)) # Orbit(Range(points_b))) =>
              ~(/\ shape_a.swg.ok
                /\ shape_b.swg.ok
                /\ ShapeWithGridEq(shape_a.swg, shape_b.swg))

----------------------------------------------------------------------------
(* Claims about the parallel expansion, checked under SpecPar *)

\* the grids of a list of shapes
GridsOf(polys) == {polys[i].grid : i \in 1..Len(polys)}

\* the previous generation expanded by one worker
Sequential(prev_polys) == RunShard(prev_polys, 1, NoResult)

\* a generation has been expanded by the workers and merged
Merged == pc \in {"loop", "done"} /\ Len(known_polys) >= 2

\* C11 as stated: for any partition of the previous generation over the
\* workers, the merged set equals the set one worker produces, and the three
\* summed counters (candidate moves examined, canonicalizations performed,
\* distinct shapes found) equal the totals of one worker.
C11_ParallelEqualsSequential ==
    Merged =>
        LET k == Len(known_polys)
            seq == Sequential(known_polys[k - 1])
        IN  /\ GridsOf(known_polys[k]) = GridsOf(seq.polys)
            /\ Len(known_polys[k]) = Len(seq.polys)
            /\ totals.moves = seq.moves
            /\ totals.canon = seq.canon
            /\ totals.found = seq.found

\* the point lists of a list of shapes
PointsOf(polys) == {polys[i].points : i \in 1..Len(polys)}

\* while the workers of generation n run, the generations 1..n-1 are stored
\* and generation n is not; what a finished worker holds was grown, by one
\* point each, from the shapes of its shard of generation n-1
BarrierBefore ==
    pc = "workers" =>
        /\ DOMAIN known_polys = 1..(n - 1)
        /\ n >= 2
        /\ \A w \in 1..NumWorkers :
              local[w].done =>
                  \A i \in 1..Len(local[w].polys) :
                      LET points == local[w].polys[i].points
                      IN  /\ Len(points) = n
                          /\ SubSeq(points, 1, n - 1)
                                \in PointsOf(ShardOf(known_polys[n - 1], shard, w))

\* once the workers have run, the driver goes on only with every worker
\* finished and all their private sets merged into the stored generation
BarrierAfter ==
    (pc \in {"loop", "done"} /\ n >= 3) =>
        /\ DOMAIN known_polys = 1..(n - 1)
        /\ \A w \in 1..NumWorkers : local[w].done
        /\ GridsOf(known_polys[n - 1]) = UNION {GridsOf(local[w].polys) : w \in 1..NumWorkers}

\* a stored generation stays in the map as it was stored
StoredKept ==
    \A k \in DOMAIN known_polys :
        k \in DOMAIN known_polys' /\ known_polys'[k] = known_polys[k]

\* C12: the expansion that produces generation n+1 starts only when generation
\* n is complete (every worker finished, the merge done, the result stored);
\* it reads only generation n; a stored generation is never modified; on
\* completion the map holds exactly the keys 1..max_n.
C12_GenerationOrdering ==
    /\ [](BarrierBefore /\ BarrierAfter)
    /\ [][StoredKept]_vars
    /\ [](pc = "done" => DOMAIN known_polys = 1..max_n)

\* C12 witness: a run of at least three generations is complete, the last two
\* of them expanded by workers that both had shapes to expand
C12_Witness ==
    /\ pc = "done"
    /\ max_n >= 3
    /\ Len(known_polys) = max_n
    /\ \A w \in 1..NumWorkers : local[w].done /\ local[w].canon > 0

----------------------------------------------------------------------------
(* Claims about the selected rotation, checked under SpecCanon *)

\* the grid of a point set at the origin with one row per y and one bit per x
RowGrid(S) ==
    [r \in 1..(SetMax({p[2] : p \in S}) + 1) |-> {p[1] : p \in {q \in S : q[2] = r - 1}}]

\* the grid of a point set at the origin with one row per x and one bit per y
\* (the layout of BinShape)
ColGrid(S) ==
    [r \in 1..(SetMax({p[1] : p \in S}) + 1) |-> {p[2] : p \in {q \in S : q[1] = r - 1}}]

\* the grids of the four rotations of a point list
RotationRowGrids(points) == {RowGrid(T) : T \in Orbit(Range(points))}
RotationColGrids(points) == {ColGrid(T) : T \in Orbit(Range(points))}

Smallest(g, grids) == g \in grids /\ \A h \in grids : ~GridLess(h, g)
Largest(g, grids) == g \in grids /\ \A h \in grids : ~GridLess(g, h)

\* C13 as stated: the canonical grid stored in a shape is the smallest of the
\* four rotation grids under lexicographic comparison of the rows: no other
\* rotation's row sequence compares strictly less than the stored one.
C13_StoredIsSmallest ==
    (rel # "input" /\ AllOk(shape_b)) =>
        /\ Smallest(shape_b.swg.grid, RotationRowGrids(points_b))
        /\ Smallest(CanonicalGrid(points_b), RotationRowGrids(points_b))
        /\ Smallest(shape_b.bin.grid, RotationColGrids(points_b))

\* C13 amended: ShapeWithGrid stores, and ShapeMinimal's canonical_rotation
\* selects, the smallest of the four rotation grids; BinShape stores the
\* largest of its four rotation grids.
C13_SmallestOrLargest ==
    (rel # "input" /\ AllOk(shape_b)) =>
        /\ Smallest(shape_b.swg.grid, RotationRowGrids(points_b))
        /\ Smallest(CanonicalGrid(points_b), RotationRowGrids(points_b))
        /\ Largest(shape_b.bin.grid, RotationColGrids(points_b))

\* C13 witness: a shape with four different rotation grids was constructed
\* from points whose own grid is not the one stored
C13_Witness ==
    /\ rel = "rotated"
    /\ AllOk(shape_b)
    /\ Cardinality(RotationRowGrids(points_b)) = 4
    /\ shape_b.swg.grid # RowGrid(Normalize(Range(points_b)))
    /\ shape_b.bin.grid # ColGrid(Normalize(Range(points_b)))

\* the cells <<x, y>> of a grid with one row per y and one bit per x
CellsOfRows(grid) == UNION {{<<x, r - 1>> : x \in grid[r]} : r \in 1..Len(grid)}

\* the cells <<x, y>> of a grid with one row per x and one bit per y
CellsOfCols(grid) == UNION {{<<r - 1, y>> : y \in grid[r]} : r \in 1..Len(grid)}

\* the extents of a grid with one row per y: the highest bit and the last row
RowGridExtents(grid) == <<SetMax(UNION Range(grid)), Len(grid) - 1>>

\* C14 as stated: the point list a constructed shape exposes is in canonical
\* coordinates: the set of exposed points is exactly the set of <<x, y>> with
\* bit x of row y of the canonical grid set, and the stored bounding box is
\* zero-based with its maximum equal to the extents of the canonical grid.
C14_PointsInCanonicalFrame ==
    (rel # "input" /\ AllOk(shape_b)) =>
        /\ Range(shape_b.swg.points) = CellsOfRows(shape_b.swg.grid)
        /\ BBMin(shape_b.swg.grid_bounds) = <<0, 0>>
        /\ BBMax(shape_b.swg.grid_bounds) = RowGridExtents(shape_b.swg.grid)
        /\ Range(shape_b.min.points) = CellsOfRows(CanonicalGrid(points_b))
        /\ Range(shape_b.bin.points) = CellsOfCols(shape_b.bin.grid)

\* the candidate of ShapeWithGrid::new for rotation k
SWGCandidate(points, k) == rotate_shape(points, BBFrom(points), ROTATIONS[k])

\* the candidate of ShapeMinimal's canonical_rotation for rotation k, and the
\* point list ShapeMinimal::new would store were that candidate kept
MinCandidate(points, k) ==
    MinimalCandidate(points,
                     <<SetMin(Xs(points)), SetMin(Ys(points))>>,
                     <<SetMax(Xs(points)), SetMax(Ys(points))>>,
                     ROTATIONS8[k])
MinPointsFor(points, k) ==
    LET minp == <<SetMin(Xs(points)), SetMin(Ys(points))>>
        cand == MinCandidate(points, k)
    IN  SortPoints([i \in 1..Len(points) |->
                      VAdd(RotMul(cand.rotation, VSub(points[i], minp)), cand.realign_offset)])

\* the point set rotated by rotation k and realigned to the origin
Realigned(points, k) == Normalize({RotMul(ROTATIONS[k], p) : p \in Range(points)})

\* what the four rotations of a point list give: the candidates of the three
\* constructors, the points ShapeMinimal would store, the realigned point sets
Candidates(points) ==
    [swg |-> <<SWGCandidate(points, 1), SWGCandidate(points, 2),
               SWGCandidate(points, 3), SWGCandidate(points, 4)>>,
     min |-> <<MinCandidate(points, 1), MinCandidate(points, 2),
               MinCandidate(points, 3), MinCandidate(points, 4)>>,
     minpoints |-> <<MinPointsFor(points, 1), MinPointsFor(points, 2),
                     MinPointsFor(points, 3), MinPointsFor(points, 4)>>,
     bin |-> BinGrids(points),
     realigned |-> <<Realigned(points, 1), Realigned(points, 2),
                     Realigned(points, 3), Realigned(points, 4)>>]

\* two of the four rotations produce equal row sequences
TiedPair(c, j, k) ==
    /\ j < k
    /\ \/ c.swg[j].grid = c.swg[k].grid
       \/ c.min[j].grid = c.min[k].grid
       \/ c.bin[j].grid = c.bin[k].grid

====
